---------------------------- MODULE Spec2Model ----------------------------
(***************************************************************************)
(* Model of opensearch_embeddings.ipynb: the brute-force ranking try_model *)
(* and the OpenSearch index the notebook sets up, fills and queries.       *)
(*                                                                         *)
(* Numbers are fixed point.  A vector component is an integer count of     *)
(* tenths (<<9, 1>> is [0.9, 0.1]); a score is an integer count of         *)
(* thousandths (993 is 0.993).                                             *)
(*                                                                         *)
(* Every cell of the notebook is an action; the kernel runs one cell at a  *)
(* time, in any order.  ret is what the last executed cell produced: its   *)
(* return value, the exception that left it, and the exception that was    *)
(* swallowed inside it; a step of the engine itself (its refresh) clears   *)
(* it.  cell holds the objects the notebook's try_model cell passes: the   *)
(* passage text and the list of search terms among them; no cell assigns   *)
(* to them.                                                                *)
(***************************************************************************)
EXTENDS Integers, Sequences, FiniteSets, TLC

VARIABLES m, index, pc, ret, cell

vars == <<m, index, pc, ret, cell>>

---------------------------------------------------------------------------
(* Bounds *)

\* Longest search_terms list handed to try_model.
MaxTerms == 3

---------------------------------------------------------------------------
(* Texts and the embedder *)

psg_gym_bench == "psg_gym_bench"

psg_tent == "psg_tent"

Passages == {psg_gym_bench, psg_tent}

\* A subset of the notebook's queries list, the terms try_model ranks.
queries == {"bench", "tent", "gym"}

\* Terms handed to do_query.
QueryTerms == queries \cup {"camping"}

\* The model names the notebook loads.
Models == {"msmarco-distilbert-base-v4", "multi-qa-MiniLM-L6-cos-v1"}

\* match_algo arguments: the two metrics, another casing, and an invalid name.
MatchAlgos == {"dot", "cosine", "Cosine", "DOT", "l2"}

\* The name compared as it is given, without lower().
AsGiven(s) == s

\* str.lower() on the match_algo argument.
Lower(s) ==
    CASE s = "Cosine" -> "cosine"
      [] s = "DOT"    -> "dot"
      [] OTHER        -> s

\* " ".join(TextBlob(psg_in).noun_phrases): the passage reduced to its nouns.
NounPhrases(psg) ==
    IF psg = psg_gym_bench THEN "nouns_gym_bench" ELSE "nouns_tent"

\* Python's order on the strings that occur as search terms.
StrRank(s) ==
    CASE s = "bench"   -> 1
      [] s = "camping" -> 2
      [] s = "gym"     -> 3
      [] s = "tent"    -> 4
      [] OTHER         -> 0

StrLess(a, b) == StrRank(a) < StrRank(b)

\* SentenceTransformer(mod).encode(text): a fixed table per model.  The first
\* model has 2 dimensions, the second 3; the second has tied scores, a zero
\* vector and negative components.
Encode(mod, text) ==
    IF mod = "msmarco-distilbert-base-v4"
    THEN CASE text = "psg_gym_bench"   -> <<10, 0>>
           [] text = "psg_tent"        -> <<0, 10>>
           [] text = "nouns_gym_bench" -> <<9, 1>>
           [] text = "nouns_tent"      -> <<1, 9>>
           [] text = "bench"           -> <<10, 0>>
           [] text = "tent"            -> <<0, 10>>
           [] text = "gym"             -> <<9, 1>>
           [] OTHER                    -> <<1, 9>>
    ELSE CASE text = "psg_gym_bench"   -> <<5, 5, 0>>
           [] text = "psg_tent"        -> <<0, 0, 0>>
           [] text = "nouns_gym_bench" -> <<5, 5, 5>>
           [] text = "nouns_tent"      -> <<-5, 0, 5>>
           [] text = "bench"           -> <<10, 0, 0>>
           [] text = "tent"            -> <<0, 10, 0>>
           [] text = "gym"             -> <<0, 0, 0>>
           [] OTHER                    -> <<0, 5, 0>>

---------------------------------------------------------------------------
(* Arithmetic *)

RECURSIVE SumProd(_, _, _)
SumProd(a, b, i) ==
    IF i > Len(a) THEN 0 ELSE a[i] * b[i] + SumProd(a, b, i + 1)

RECURSIVE SumSqDiff(_, _, _)
SumSqDiff(a, b, i) ==
    IF i > Len(a) THEN 0
    ELSE (a[i] - b[i]) * (a[i] - b[i]) + SumSqDiff(a, b, i + 1)

NormSq(a) == SumProd(a, a, 1)

\* Largest r in lo .. hi - 1 with r * r <= n, by bisection.
RECURSIVE ISqrtIter(_, _, _)
ISqrtIter(n, lo, hi) ==
    IF hi - lo <= 1 THEN lo
    ELSE LET mid == (lo + hi) \div 2
         IN  IF mid * mid <= n THEN ISqrtIter(n, mid, hi)
             ELSE ISqrtIter(n, lo, mid)

ISqrt(n) == ISqrtIter(n, 0, 46340)

Abs(x) == IF x < 0 THEN -x ELSE x

---------------------------------------------------------------------------
(* Metrics: sentence_transformers.util and the engine's default space *)

\* util.dot_score(a, b): the sum of products, no normalisation.
dot_score(a, b) == SumProd(a, b, 1) * 10

\* The cosine with the norms not clamped: 0 / 0 for a zero vector, a NaN,
\* written here as a value below every score.
cos_sim_unclamped(a, b) ==
    LET d == SumProd(a, b, 1)
        n == NormSq(a) * NormSq(b)
    IN  IF n = 0 THEN -100000
        ELSE LET c == (Abs(d) * 100000) \div ISqrt(n * 10000)
             IN  IF d < 0 THEN -c ELSE c

\* util.pytorch_cos_sim(a, b): both vectors are normalised with the norm
\* clamped from below by a tiny eps, then multiplied.  A zero vector stays
\* zero, so the result is 0: no exception, no NaN.
pytorch_cos_sim(a, b) ==
    LET d == SumProd(a, b, 1)
        n == NormSq(a) * NormSq(b)
    IN  IF n = 0 THEN 0
        ELSE LET c == (Abs(d) * 100000) \div ISqrt(n * 10000)
             IN  IF d < 0 THEN -c ELSE c

\* The score the engine gives a hit of a knn query.  The index body names no
\* space, so the engine's default (Euclidean) applies: 1 / (1 + d^2).
\* "cosinesimil" is what the commented-out line of idx would select.
EngineScore(space_type, q, v) ==
    IF space_type = "cosinesimil"
    THEN (1000 + pytorch_cos_sim(q, v)) \div 2
    ELSE 100000 \div (100 + SumSqDiff(q, v, 1))

---------------------------------------------------------------------------
(* sorted(..., reverse=True) on (score, term) tuples *)

\* The order sorted(..., key=score) would use: the term is not compared.
ScoreLess(x, y) == x[1] < y[1]

\* Python's tuple order: by score, then by the term's string order.
TupleLess(x, y) ==
    \/ x[1] < y[1]
    \/ x[1] = y[1] /\ StrLess(x[2], y[2])

\* x put into the descending list s behind every element that is not smaller
\* than it (equal elements keep their order: the sort is stable).
RECURSIVE InsertDesc(_, _)
InsertDesc(x, s) ==
    IF s = <<>> THEN <<x>>
    ELSE IF TupleLess(Head(s), x) THEN <<x>> \o s
         ELSE <<Head(s)>> \o InsertDesc(x, Tail(s))

RECURSIVE SortedReverseFrom(_, _)
SortedReverseFrom(s, acc) ==
    IF s = <<>> THEN acc
    ELSE SortedReverseFrom(Tail(s), InsertDesc(Head(s), acc))

\* The list returned as it was built, the call of sorted() forgotten.
Unsorted(s) == s

SortedReverse(s) == SortedReverseFrom(s, <<>>)

---------------------------------------------------------------------------
(* try_model *)

\* The keys of {q: model.encode(q) for q in search_terms}: every distinct
\* term once, in the order of its first occurrence.
RECURSIVE DictKeysFrom(_, _)
DictKeysFrom(s, acc) ==
    IF s = <<>> THEN acc
    ELSE IF \E i \in 1..Len(acc) : acc[i] = Head(s)
         THEN DictKeysFrom(Tail(s), acc)
         ELSE DictKeysFrom(Tail(s), Append(acc, Head(s)))

\* A list of (term, embedding) pairs in place of the dict: every term kept,
\* repeated or not.
ListKeys(s) == s

DictKeys(s) == DictKeysFrom(s, <<>>)

\* The branches of the if/elif taking the same function.
MatchFuncDot(algo, v, p) == dot_score(v, p)

\* match_func(v, passage_embedding_1) for the metric match_algo selects.
MatchFunc(algo, v, p) ==
    IF algo = "dot" THEN dot_score(v, p) ELSE pytorch_cos_sim(v, p)

\* The list comprehension of the return statement, before it is sorted.
Scored(mod, algo, psg, keys) ==
    [i \in 1..Len(keys) |->
        <<MatchFunc(algo, Encode(mod, keys[i]), Encode(mod, psg)), keys[i]>>]

\* A try_model whose else branch returns an empty list instead of raising.
try_model_empty(mod_name, match_algo, just_nouns, psg_in, search_terms) ==
    LET psg  == IF just_nouns THEN NounPhrases(psg_in) ELSE psg_in
        keys == DictKeys(search_terms)
        algo == Lower(match_algo)
    IN  IF algo \in {"dot", "cosine"}
        THEN [raised |-> "none",
              value  |-> SortedReverse(Scored(mod_name, algo, psg, keys))]
        ELSE [raised |-> "none", value |-> <<>>]

\* try_model(mod_name, match_algo, just_nouns, psg_in, search_terms): what it
\* raises and what it returns.
try_model(mod_name, match_algo, just_nouns, psg_in, search_terms) ==
    LET psg  == IF just_nouns THEN NounPhrases(psg_in) ELSE psg_in
        keys == DictKeys(search_terms)
        algo == Lower(match_algo)
    IN  IF algo \in {"dot", "cosine"}
        THEN [raised |-> "none",
              value  |-> SortedReverse(Scored(mod_name, algo, psg, keys))]
        ELSE [raised |-> "ValueError", value |-> <<>>]

---------------------------------------------------------------------------
(* The engine: one index, rob_semantic_test *)

Ids == {1, 2}

\* "size" of the query body: the most hits a search returns.
QuerySize == 2

\* "k" of the knn clause: the most hits per shard.
QueryK == 2

\* docs are the stored documents, oldest first; the first searchable of them
\* are visible to a search (a document is stored by the create call and made
\* searchable by the engine's next refresh).
NoIndex ==
    [exists |-> FALSE, knn |-> FALSE, dimension |-> 0,
     space_type |-> "none", docs |-> <<>>, searchable |-> 0]

\* The index body with the commented-out method line active.
idx_cosinesimil ==
    [knn |-> TRUE,
     dimension |-> Len(Encode(m, psg_gym_bench)),
     space_type |-> "cosinesimil"]

\* The index body: knn on, the vector field's dimension taken from the loaded
\* model, and no method / space_type (that line is commented out).
idx ==
    [knn |-> TRUE,
     dimension |-> Len(Encode(m, psg_gym_bench)),
     space_type |-> "default"]

\* es.indices.delete(index=my_idx).  broken: the request fails for a reason
\* of its own (transport, authorisation) and the index stays.
indices_delete(ix, broken) ==
    IF ~ix.exists THEN [raised |-> "NotFoundError", index |-> ix]
    ELSE IF broken THEN [raised |-> "TransportError", index |-> ix]
    ELSE [raised |-> "none", index |-> NoIndex]

\* The delete call without its try/except: what is raised leaves the cell.
NoExcept(exc) == exc

\* try: ... except: pass -- whatever was raised inside, nothing leaves.
ExceptPass(exc) == "none"

\* A create call that takes an index already there for created (ignore=400).
indices_create_ignore(ix, body) ==
    IF ix.exists THEN [raised |-> "none", index |-> ix]
    ELSE [raised |-> "none",
          index  |-> [exists |-> TRUE, knn |-> body.knn,
                      dimension |-> body.dimension,
                      space_type |-> body.space_type, docs |-> <<>>,
                      searchable |-> 0]]

\* es.indices.create(index=my_idx, body=body).
indices_create(ix, body) ==
    IF ix.exists THEN [raised |-> "RequestError", index |-> ix]
    ELSE [raised |-> "none",
          index  |-> [exists |-> TRUE, knn |-> body.knn,
                      dimension |-> body.dimension,
                      space_type |-> body.space_type, docs |-> <<>>,
                      searchable |-> 0]]

HasId(ix, id) == \E i \in 1..Len(ix.docs) : ix.docs[i].id = id

\* es.create with the mapping's dimension not enforced.
es_create_any_length(ix, id, body, auto_create) ==
    IF ~ix.exists THEN [raised |-> "NotFoundError", index |-> ix]
    ELSE IF HasId(ix, id) THEN [raised |-> "ConflictError", index |-> ix]
    ELSE [raised |-> "none",
          index  |-> [ix EXCEPT !.docs =
                        Append(@, [id |-> id, vector |-> body.vector,
                                   description |-> body.description])]]

\* es.index in place of es.create: the id is not looked for.
es_index(ix, id, body, auto_create) ==
    IF ~ix.exists THEN [raised |-> "NotFoundError", index |-> ix]
    ELSE IF ix.knn /\ Len(body.vector) # ix.dimension
         THEN [raised |-> "RequestError", index |-> ix]
    ELSE [raised |-> "none",
          index  |-> [ix EXCEPT !.docs =
                        Append(@, [id |-> id, vector |-> body.vector,
                                   description |-> body.description])]]

\* es.create(index=my_idx, body=body, id=id): create only, never overwrite.
\* The engine parses the document against the mapping (a knn_vector of the
\* wrong length is refused) before it looks for the id.  On a missing index
\* the engine either refuses or, when it is set to create indices on first
\* write, makes one with a dynamic mapping (no knn field, no dimension) and
\* stores the document.
es_create(ix, id, body, auto_create) ==
    LET doc == [id |-> id, vector |-> body.vector,
                description |-> body.description]
    IN  IF ~ix.exists
        THEN IF auto_create
             THEN [raised |-> "none",
                   index  |-> [exists |-> TRUE, knn |-> FALSE, dimension |-> 0,
                               space_type |-> "none", docs |-> <<doc>>,
                               searchable |-> 0]]
             ELSE [raised |-> "NotFoundError", index |-> ix]
        ELSE IF ix.knn /\ Len(body.vector) # ix.dimension
             THEN [raised |-> "RequestError", index |-> ix]
        ELSE IF HasId(ix, id)
             THEN [raised |-> "ConflictError", index |-> ix]
        ELSE [raised |-> "none",
              index  |-> [ix EXCEPT !.docs = Append(@, doc)]]

\* A search that sees every stored document at once, refreshed or not.
SearchableAll(ix) == ix.docs

\* The documents a search sees.
Searchable(ix) == SubSeq(ix.docs, 1, ix.searchable)

\* The hit the engine makes of a stored document for query vector q.
Hit(ix, q, d) ==
    [id |-> d.id, score |-> EngineScore(ix.space_type, q, d.vector),
     description |-> d.description]

Min(a, b) == IF a < b THEN a ELSE b

\* A search with a min_score of 0.5: hits below it are dropped.
SearchHitsMinScore(ix, q, size) ==
    LET keep == SelectSeq(Searchable(ix), LAMBDA d : Hit(ix, q, d).score >= 500)
        n == Len(keep)
        orders == {p \in [1..n -> 1..n] :
                     /\ \A i, j \in 1..n : i # j => p[i] # p[j]
                     /\ \A i \in 1..n - 1 :
                          Hit(ix, q, keep[p[i]]).score
                            >= Hit(ix, q, keep[p[i + 1]]).score}
    IN  {[i \in 1..Min(size, n) |-> Hit(ix, q, keep[p[i]])] : p \in orders}

\* The hit lists the engine may answer a knn query with: the searchable
\* documents' hits, best score first, cut to size.  Which of two hits with
\* the same score comes first is the engine's choice.
SearchHits(ix, q, size) ==
    LET seen == Searchable(ix)
        n == Len(seen)
        orders == {p \in [1..n -> 1..n] :
                     /\ \A i, j \in 1..n : i # j => p[i] # p[j]
                     /\ \A i \in 1..n - 1 :
                          Hit(ix, q, seen[p[i]]).score
                            >= Hit(ix, q, seen[p[i + 1]]).score}
    IN  {[i \in 1..Min(size, n) |-> Hit(ix, q, seen[p[i]])] : p \in orders}

\* A search that answers "not found" when nothing matches.
es_search_or_404(ix, q, size) ==
    IF ~ix.exists \/ ix.searchable = 0
    THEN [raised |-> "NotFoundError", hits |-> {}]
    ELSE IF ~ix.knn \/ Len(q) # ix.dimension
         THEN [raised |-> "RequestError", hits |-> {}]
    ELSE [raised |-> "none", hits |-> SearchHits(ix, q, size)]

\* es.search(qry, index=my_idx) with the knn query of do_query.
es_search(ix, q, size) ==
    IF ~ix.exists THEN [raised |-> "NotFoundError", hits |-> {}]
    ELSE IF ~ix.knn \/ Len(q) # ix.dimension
         THEN [raised |-> "RequestError", hits |-> {}]
    ELSE [raised |-> "none", hits |-> SearchHits(ix, q, size)]

\* A return statement that gives the best hit's description for every hit.
DescribeFirst(hits) ==
    [i \in 1..Len(hits) |-> <<hits[1].description, hits[i].score>>]

\* The return statement of do_query: (description, score) of every hit.
Describe(hits) ==
    [i \in 1..Len(hits) |-> <<hits[i].description, hits[i].score>>]

\* do_query(term): the results it may return, or what it raises.
do_query(ix, mod, term) ==
    LET res == es_search(ix, Encode(mod, term), Min(QuerySize, QueryK))
    IN  IF res.raised # "none"
        THEN {[raised |-> res.raised, value |-> <<>>]}
        ELSE {[raised |-> "none", value |-> Describe(h)] : h \in res.hits}

---------------------------------------------------------------------------
(* The notebook's cells *)

NoArgs ==
    [mod_name |-> "", match_algo |-> "", just_nouns |-> FALSE, psg_in |-> "",
     search_terms |-> <<>>, term |-> "", id |-> 0]

Out(op, args, swallowed, raised, value) ==
    [op |-> op, args |-> args, swallowed |-> swallowed, raised |-> raised,
     value |-> value]

SearchTermLists == UNION {[1..n -> queries] : n \in 0..MaxTerms}

\* The argument lists a try_model cell may hold.
TryModelCells ==
    [mod_name : Models, match_algo : MatchAlgos, just_nouns : BOOLEAN,
     psg_in : Passages, search_terms : SearchTermLists, term : {""}, id : {0}]

Init ==
    /\ cell \in TryModelCells
    /\ m = "msmarco-distilbert-base-v4"
    /\ index = NoIndex
    /\ pc = "idle"
    /\ ret = Out("start", NoArgs, "none", "none", <<>>)

\* m = SentenceTransformer(name)
LoadModel(name) ==
    /\ pc = "idle"
    /\ m' = name
    /\ ret' = Out("load", [NoArgs EXCEPT !.mod_name = name], "none", "none", <<>>)
    /\ UNCHANGED <<index, pc, cell>>

\* A try_model that removes the repeated terms from the list it was handed,
\* in place.
TryModelInPlace ==
    /\ pc = "idle"
    /\ LET r == try_model(cell.mod_name, cell.match_algo, cell.just_nouns,
                          cell.psg_in, cell.search_terms)
       IN  ret' = Out("try_model", cell, "none", r.raised, r.value)
    /\ cell' = [cell EXCEPT !.search_terms = DictKeys(cell.search_terms)]
    /\ UNCHANGED <<m, index, pc>>

\* The cell calling try_model with the arguments written in it.
TryModel ==
    /\ pc = "idle"
    /\ LET r == try_model(cell.mod_name, cell.match_algo, cell.just_nouns,
                          cell.psg_in, cell.search_terms)
       IN  ret' = Out("try_model", cell, "none", r.raised, r.value)
    /\ UNCHANGED <<m, index, pc, cell>>

\* A set-up cell with the create call inside the try as well: its failure is
\* swallowed too.
SetupIndexAllSwallowed(broken) ==
    /\ pc = "idle"
    /\ LET del == indices_delete(index, broken)
           cre == indices_create(del.index, idx)
       IN  /\ index' = cre.index
           /\ ret' = Out("setup", NoArgs, del.raised, ExceptPass(cre.raised),
                         <<>>)
    /\ UNCHANGED <<m, pc, cell>>

\* The "create index" cell: delete inside try/except, then create.
SetupIndex(broken) ==
    /\ pc = "idle"
    /\ LET del  == indices_delete(index, broken)
           left == ExceptPass(del.raised)
           cre  == indices_create(del.index, idx)
       IN  IF left # "none"
           THEN /\ index' = del.index
                /\ ret' = Out("setup", NoArgs, "none", left, <<>>)
           ELSE /\ index' = cre.index
                /\ ret' = Out("setup", NoArgs, del.raised, cre.raised, <<>>)
    /\ UNCHANGED <<m, pc, cell>>

\* The body of the create call for id: the passage's embedding under the
\* loaded model, and the passage.
DocBody(id) ==
    LET psg == IF id = 1 THEN psg_gym_bench ELSE psg_tent
    IN  [vector |-> Encode(m, psg), description |-> psg]

\* The "add some documents" cell, first call: es.create(..., id=1).  An
\* exception ends the cell, so the second call is not made.
AddDocument1(auto_create) ==
    /\ pc = "idle"
    /\ LET r == es_create(index, 1, DocBody(1), auto_create)
       IN  /\ index' = r.index
           /\ ret' = Out("es.create", [NoArgs EXCEPT !.id = 1], "none",
                         r.raised, <<>>)
           /\ pc' = IF r.raised = "none" THEN "doc2" ELSE "idle"
    /\ UNCHANGED <<m, cell>>

\* The "add some documents" cell, second call: es.create(..., id=2).
AddDocument2 ==
    /\ pc = "doc2"
    /\ LET r == es_create(index, 2, DocBody(2), FALSE)
       IN  /\ index' = r.index
           /\ ret' = Out("es.create", [NoArgs EXCEPT !.id = 2], "none",
                         r.raised, <<>>)
    /\ pc' = "idle"
    /\ UNCHANGED <<m, cell>>

\* A cell calling do_query(term).
DoQuery(term) ==
    /\ pc = "idle"
    /\ \E r \in do_query(index, m, term) :
          ret' = Out("do_query", [NoArgs EXCEPT !.term = term], "none",
                     r.raised, r.value)
    /\ UNCHANGED <<m, index, pc, cell>>

\* The engine's periodic refresh: what has been stored becomes searchable.
\* The create calls do not ask for a refresh themselves.
Refresh ==
    /\ index.exists
    /\ index.searchable < Len(index.docs)
    /\ index' = [index EXCEPT !.searchable = Len(index.docs)]
    /\ ret' = Out("refresh", NoArgs, "none", "none", <<>>)
    /\ UNCHANGED <<m, pc, cell>>

Next ==
    \/ \E name \in Models : LoadModel(name)
    \/ TryModel
    \/ \E broken \in BOOLEAN : SetupIndex(broken)
    \/ \E auto_create \in BOOLEAN : AddDocument1(auto_create)
    \/ AddDocument2
    \/ \E term \in QueryTerms : DoQuery(term)
    \/ Refresh

Spec == Init /\ [][Next]_vars

\* The notebook with its first try_model cell, try_model(<model>, "cosine"),
\* whose search terms default to the queries list.
QueryInit ==
    /\ cell = [NoArgs EXCEPT !.mod_name = "multi-qa-MiniLM-L6-cos-v1",
                             !.match_algo = "cosine",
                             !.psg_in = psg_gym_bench,
                             !.search_terms = <<"gym", "bench", "tent">>]
    /\ m = "msmarco-distilbert-base-v4"
    /\ index = NoIndex
    /\ pc = "idle"
    /\ ret = Out("start", NoArgs, "none", "none", <<>>)

\* The index is created without a refresh_interval setting, so the engine
\* refreshes it periodically: a pending refresh is not put off for ever.
LiveSpec == QueryInit /\ [][Next]_vars /\ WF_vars(Refresh)

---------------------------------------------------------------------------
(* Vocabulary of the properties *)

Returned(op) == ret.op = op /\ ret.raised = "none"

Range(s) == {s[i] : i \in 1..Len(s)}

\* Position of a term's first occurrence in a list.
FirstIndex(s, t) == CHOOSE i \in 1..Len(s) : s[i] = t /\ \A j \in 1..i - 1 : s[j] # t

\* The passage try_model embeds for the arguments a.
PassageOf(a) == IF a.just_nouns THEN NounPhrases(a.psg_in) ELSE a.psg_in

\* The score slot of a result entry: first in try_model's (score, term),
\* second in do_query's (description, score).
ScoreAt(i) == IF ret.op = "try_model" THEN ret.value[i][1] ELSE ret.value[i][2]

IdentAt(i) == IF ret.op = "try_model" THEN ret.value[i][2] ELSE ret.value[i][1]

NonIncreasing == \A i \in 1..Len(ret.value) - 1 : ScoreAt(i) >= ScoreAt(i + 1)

StrictlyDecreasing == \A i \in 1..Len(ret.value) - 1 : ScoreAt(i) > ScoreAt(i + 1)

NoIdentTwice ==
    \A i, j \in 1..Len(ret.value) : i # j => IdentAt(i) # IdentAt(j)

---------------------------------------------------------------------------
(* C1 *)

\* C1 as stated: every search result (try_model's and do_query's) has at most
\* K = 2 entries, is strictly ordered by score, highest first, and names no
\* identifier twice.
C1_AtMostK_Strict ==
    (Returned("try_model") \/ Returned("do_query")) =>
        /\ Len(ret.value) <= QuerySize
        /\ StrictlyDecreasing
        /\ NoIdentTwice

\* C1 as amended: do_query returns at most K = 2 entries; try_model has no K
\* and returns one entry per distinct search term; both results are ordered
\* by score, highest first, entries with equal scores being adjacent; no
\* identifier appears twice.
C1_Ranked ==
    /\ Returned("do_query") => Len(ret.value) <= QuerySize
    /\ Returned("try_model") =>
          Len(ret.value) = Cardinality(Range(ret.args.search_terms))
    /\ (Returned("try_model") \/ Returned("do_query")) =>
          NonIncreasing /\ NoIdentTwice

\* try_model has ranked a list with a repeated term and two terms of equal
\* score.
C1_Witness ==
    /\ Returned("try_model")
    /\ Len(ret.args.search_terms) > Cardinality(Range(ret.args.search_terms))
    /\ \E i \in 1..Len(ret.value) - 1 : ScoreAt(i) = ScoreAt(i + 1)

---------------------------------------------------------------------------
(* C2 *)

\* The score try_model's metric gives term t for the arguments a.
RefScore(a, t) ==
    MatchFunc(Lower(a.match_algo), Encode(a.mod_name, t),
              Encode(a.mod_name, PassageOf(a)))

\* The result holds every distinct search term exactly once, with the score
\* of a full scan.
FullScan ==
    /\ {ret.value[i][2] : i \in 1..Len(ret.value)} = Range(ret.args.search_terms)
    /\ Len(ret.value) = Cardinality(Range(ret.args.search_terms))
    /\ \A i \in 1..Len(ret.value) :
          ret.value[i][1] = RefScore(ret.args, ret.value[i][2])

\* C2 as stated: try_model's ranking is the full-scan sort by score, best
\* first, and terms of equal score stand in insertion order, the earliest
\* inserted first.
C2_TiesByInsertion ==
    Returned("try_model") =>
        /\ FullScan
        /\ \A i \in 1..Len(ret.value) - 1 :
              \/ ret.value[i][1] > ret.value[i + 1][1]
              \/ /\ ret.value[i][1] = ret.value[i + 1][1]
                 /\ FirstIndex(ret.args.search_terms, ret.value[i][2])
                      < FirstIndex(ret.args.search_terms, ret.value[i + 1][2])

\* C2 as amended: try_model's ranking is the full-scan sort by score, best
\* first, and terms of equal score stand in descending string order of the
\* term (the tuples are compared whole); the order of the search terms has
\* no influence, so equal inputs give equal results.
C2_TiesByTerm ==
    Returned("try_model") =>
        /\ FullScan
        /\ \A i \in 1..Len(ret.value) - 1 :
              \/ ret.value[i][1] > ret.value[i + 1][1]
              \/ /\ ret.value[i][1] = ret.value[i + 1][1]
                 /\ StrLess(ret.value[i + 1][2], ret.value[i][2])

\* try_model has ranked two different terms of equal score, the earlier
\* inserted one being the smaller string.
C2_Witness ==
    /\ Returned("try_model")
    /\ \E i \in 1..Len(ret.value) - 1 :
          /\ ret.value[i][1] = ret.value[i + 1][1]
          /\ FirstIndex(ret.args.search_terms, ret.value[i + 1][2])
               < FirstIndex(ret.args.search_terms, ret.value[i][2])

---------------------------------------------------------------------------
(* C3 *)

StoredOnce ==
    \A i, j \in 1..Len(index.docs) :
        i # j => index.docs[i].id # index.docs[j].id

\* The vector of the create call for id fits the index: the index has no
\* knn mapping, or the lengths agree.
Fits(id) == index.knn => Len(DocBody(id).vector) = index.dimension

\* A step of a create call whose id is stored: it fails and the index stays;
\* with a fitting vector the failure is the conflict error.  A conflict error
\* is raised for a stored id only.
DuplicateRefused ==
    ret'.op = "es.create" =>
        /\ HasId(index, ret'.args.id) =>
              /\ ret'.raised \in {"ConflictError", "RequestError"}
              /\ index' = index
        /\ HasId(index, ret'.args.id) /\ Fits(ret'.args.id) =>
              ret'.raised = "ConflictError"
        /\ ret'.raised = "ConflictError" =>
              HasId(index, ret'.args.id) /\ index' = index

\* A step of the set-up cell that does not raise leaves an empty index, and
\* a create call with a fitting vector on an index that lacks the id stores
\* the document.
ReinsertAccepted ==
    /\ ret'.op = "setup" /\ ret'.raised = "none" => index'.docs = <<>>
    /\ ret'.op = "es.create" /\ index.exists /\ ~HasId(index, ret'.args.id)
         /\ Fits(ret'.args.id) =>
          /\ ret'.raised = "none"
          /\ HasId(index', ret'.args.id)

\* C3: a create call for an id that is stored fails (conflict) and leaves the
\* index unchanged; once the index has been deleted and created again the
\* same id is accepted; an id is never stored twice.
C3_DuplicateId ==
    /\ []StoredOnce
    /\ [][DuplicateRefused]_vars
    /\ [][ReinsertAccepted]_vars

\* The create call for id 1 has been refused with the conflict error.
C3_Witness ==
    /\ ret.op = "es.create"
    /\ ret.raised = "ConflictError"
    /\ ret.args.id = 1
    /\ HasId(index, 1)

---------------------------------------------------------------------------
(* C4 *)

SameLength ==
    \A i, j \in 1..Len(index.docs) :
        Len(index.docs[i].vector) = Len(index.docs[j].vector)

MappedLength ==
    index.exists /\ index.knn =>
        \A i \in 1..Len(index.docs) :
            Len(index.docs[i].vector) = index.dimension

\* The set-up cell fixes the dimension, from the loaded model; a create call
\* does not change it, and one whose vector has another length is refused
\* and leaves the index unchanged.
DimensionFromIndex ==
    /\ ret'.op = "setup" /\ ret'.raised = "none" =>
          /\ index'.knn
          /\ index'.dimension = Len(Encode(m, psg_gym_bench))
    /\ ret'.op = "es.create" /\ index.exists =>
          index'.dimension = index.dimension
    /\ ret'.op = "es.create" /\ index.exists /\ ~Fits(ret'.args.id) =>
          /\ ret'.raised = "RequestError"
          /\ index' = index

---------------------------------------------------------------------------
(* C5 *)

\* C5 as stated: an index exists, and a query is answered, only with a metric
\* (dot or cosine) explicitly chosen for the index.
C5_MetricRequired ==
    /\ index.exists => index.space_type \in {"innerproduct", "cosinesimil"}
    /\ Returned("do_query") =>
          index.space_type \in {"innerproduct", "cosinesimil"}

\* C5 as amended: the index is created from a body that names no metric, and
\* do_query is answered all the same, with the scores of the engine's default
\* space (1 / (1 + squared Euclidean distance)).
C5_NoMetricChosen ==
    /\ index.exists => index.space_type \in {"default", "none"}
    /\ index.exists /\ index.knn => index.space_type = "default"
    /\ Returned("do_query") =>
          \A i \in 1..Len(ret.value) :
              \E j \in 1..Len(index.docs) :
                  /\ index.docs[j].description = ret.value[i][1]
                  /\ ret.value[i][2] =
                        100000 \div (100 + SumSqDiff(Encode(m, ret.args.term),
                                                     index.docs[j].vector, 1))

\* do_query has been answered with two hits.
C5_Witness ==
    /\ Returned("do_query")
    /\ Len(ret.value) = 2
    /\ index.space_type = "default"

---------------------------------------------------------------------------
(* C6 *)

\* C6 as stated: when the index is absent, the failure of the delete step
\* (not found) reaches the caller of the set-up cell.
C6_NotFoundReachesCaller ==
    ret.op = "setup" /\ ret.swallowed = "NotFoundError" =>
        ret.raised = "NotFoundError"

\* C6 as amended: when the index is absent, the delete step raises not-found
\* inside the set-up cell and the bare except swallows it: the caller sees no
\* failure, and the cell goes on to create the index.
C6_NotFoundSwallowed ==
    ret.op = "setup" =>
        /\ ret.raised # "NotFoundError"
        /\ ret.swallowed = "NotFoundError" =>
              /\ ret.raised = "none"
              /\ index.exists
              /\ index.docs = <<>>

\* The set-up cell has run with the index absent.
C6_Witness ==
    /\ ret.op = "setup"
    /\ ret.swallowed = "NotFoundError"
    /\ ret.raised = "none"

---------------------------------------------------------------------------
(* C7 *)

\* The engine answers the query do_query sends: the index is there, it has
\* the knn mapping, and the query vector has the mapping's length.
Answerable ==
    /\ index.exists
    /\ index.knn
    /\ Len(Encode(m, ret.args.term)) = index.dimension

\* C7 as stated: do_query on an index that yields no hits, and try_model on
\* an empty list of search terms, raise nothing and return the empty list.
C7_EmptyNeverRaises ==
    /\ ret.op = "do_query" /\ Answerable /\ index.docs = <<>> =>
          ret.raised = "none" /\ ret.value = <<>>
    /\ ret.op = "try_model" /\ ret.args.search_terms = <<>> =>
          ret.raised = "none" /\ ret.value = <<>>

\* C7 as amended: do_query on an index that yields no hits raises nothing and
\* returns the empty list; try_model on an empty list of search terms does so
\* when match_algo names a metric, and raises ValueError when it does not.
C7_EmptyResult ==
    /\ ret.op = "do_query" /\ Answerable /\ index.docs = <<>> =>
          ret.raised = "none" /\ ret.value = <<>>
    /\ ret.op = "try_model" /\ ret.args.search_terms = <<>> =>
          IF Lower(ret.args.match_algo) \in {"dot", "cosine"}
          THEN ret.raised = "none" /\ ret.value = <<>>
          ELSE ret.raised = "ValueError"

\* do_query has run against an index that exists and holds no document.
C7_Witness ==
    /\ ret.op = "do_query"
    /\ Answerable
    /\ index.docs = <<>>
    /\ ret.value = <<>>

---------------------------------------------------------------------------
(* C8 *)

IsZero(v) == \A i \in 1..Len(v) : v[i] = 0

\* A zero vector takes part in scoring term t for the arguments a.
Degenerate(a, t) ==
    IsZero(Encode(a.mod_name, t)) \/ IsZero(Encode(a.mod_name, PassageOf(a)))

\* C8 as stated: with the cosine metric a zero vector makes try_model fail
\* with DegenerateVector; with the dot metric the same call returns scores.
C8_DegenerateVector ==
    ret.op = "try_model" =>
        /\ Lower(ret.args.match_algo) = "cosine"
             /\ (\E t \in Range(ret.args.search_terms) : Degenerate(ret.args, t))
             => ret.raised = "DegenerateVector"
        /\ Lower(ret.args.match_algo) = "dot" => ret.raised = "none"

\* C8 as amended: with the cosine metric a zero vector does not make
\* try_model fail; the term is returned with the score 0.  With the dot
\* metric the same call returns the score 0 as well.
C8_ZeroScore ==
    ret.op = "try_model" /\ Lower(ret.args.match_algo) \in {"dot", "cosine"} =>
        /\ ret.raised = "none"
        /\ \A i \in 1..Len(ret.value) :
              Degenerate(ret.args, ret.value[i][2]) => ret.value[i][1] = 0

\* try_model has scored a zero vector with the cosine metric.
C8_Witness ==
    /\ Returned("try_model")
    /\ Lower(ret.args.match_algo) = "cosine"
    /\ \E i \in 1..Len(ret.value) :
          /\ IsZero(Encode(ret.args.mod_name, ret.value[i][2]))
          /\ ~IsZero(Encode(ret.args.mod_name, PassageOf(ret.args)))

---------------------------------------------------------------------------
(* C9 *)

\* try_model ranks exactly bench ([1,0]) and tent ([0,1]) by cosine against
\* the passage p, whose nouns embed as [0.9,0.1] or [0.1,0.9].
TwoRecordsRanked(p) ==
    /\ ret.op = "try_model"
    /\ ret.args.mod_name = "msmarco-distilbert-base-v4"
    /\ Lower(ret.args.match_algo) = "cosine"
    /\ ret.args.just_nouns
    /\ ret.args.psg_in = p
    /\ Range(ret.args.search_terms) = {"bench", "tent"}

\* do_query asks for term, which embeds as [0.9,0.1] or [0.1,0.9], with
\* exactly the bench passage stored as [1,0] and the tent passage as [0,1],
\* both searchable.
TwoRecordsQueried(term) ==
    /\ ret.op = "do_query"
    /\ ret.args.term = term
    /\ m = "msmarco-distilbert-base-v4"
    /\ index.exists /\ index.knn
    /\ Len(index.docs) = 2
    /\ index.searchable = 2
    /\ index.docs[1].vector = <<10, 0>>
    /\ index.docs[2].vector = <<0, 10>>

\* C9 as stated: in these scenarios one record is returned, the nearer one.
C9_SingleResult ==
    /\ TwoRecordsRanked(psg_gym_bench) \/ TwoRecordsRanked(psg_tent) =>
          ret.raised = "none" /\ Len(ret.value) = 1
    /\ TwoRecordsQueried("gym") \/ TwoRecordsQueried("camping") =>
          ret.raised = "none" /\ Len(ret.value) = 1

\* C9 as amended: in these scenarios both records are returned (try_model
\* takes no k, do_query asks for 2), bench first with about 0.994 for
\* [0.9,0.1] and tent first for [0.1,0.9]; in general the first of two
\* results is the one with the larger score, the cosine in try_model and the
\* engine's default-space score in do_query.
C9_NearerFirst ==
    /\ TwoRecordsRanked(psg_gym_bench) =>
          ret.raised = "none" /\ ret.value = <<<<993, "bench">>, <<110, "tent">>>>
    /\ TwoRecordsRanked(psg_tent) =>
          ret.raised = "none" /\ ret.value = <<<<993, "tent">>, <<110, "bench">>>>
    /\ TwoRecordsQueried("gym") =>
          /\ ret.raised = "none"
          /\ ret.value = <<<<psg_gym_bench, 980>>, <<psg_tent, 381>>>>
    /\ TwoRecordsQueried("camping") =>
          /\ ret.raised = "none"
          /\ ret.value = <<<<psg_tent, 980>>, <<psg_gym_bench, 381>>>>
    /\ (Returned("try_model") \/ Returned("do_query")) /\ Len(ret.value) = 2 =>
          ScoreAt(1) >= ScoreAt(2)

\* try_model has ranked bench and tent, given in the order tent, bench,
\* against the passage that embeds as [0.9,0.1].
C9_Witness ==
    /\ TwoRecordsRanked(psg_gym_bench)
    /\ ret.args.search_terms = <<"tent", "bench">>
    /\ Len(ret.value) = 2

---------------------------------------------------------------------------
(* C10 *)

\* C10 as stated: deleting removes the deleted record only; with bench and
\* tent stored, tent is still stored, and returned, after the deletion.
C10_OthersRemain ==
    [][/\ HasId(index, 1) /\ HasId(index, 2)
       /\ ret'.op = "setup" /\ ret'.swallowed = "none" /\ ret'.raised = "none"
       => HasId(index', 2)]_vars

\* C10 as amended: the only deletion is that of the whole index; after the
\* set-up cell has deleted and recreated it, the index is empty and a query
\* returns none of the earlier records (bench and tent alike) until they are
\* inserted again.  A query returns exactly the records stored and searchable
\* when it runs, each with its score, however low: no cutoff is applied.
C10_DeletedNotReturned ==
    /\ ret.op = "setup" /\ ret.raised = "none" => index.docs = <<>>
    /\ Returned("do_query") =>
          /\ Len(ret.value) = index.searchable
          /\ {ret.value[i][1] : i \in 1..Len(ret.value)}
               = {index.docs[j].description : j \in 1..index.searchable}

\* do_query has returned both stored records, the second with a score below
\* one half.
C10_Witness ==
    /\ Returned("do_query")
    /\ Len(ret.value) = 2
    /\ ret.value[2][2] < 500

---------------------------------------------------------------------------
(* C11 *)

\* The passage the notebook stores under an id.
StoredPassage(id) == IF id = 1 THEN psg_gym_bench ELSE psg_tent

\* C11: a document is stored with exactly the vector and the description it
\* was created with, and is read back so.  Every stored document with id 1
\* holds the gym and bench passage and that passage's embedding, every one
\* with id 2 the tent passage and its embedding; a successful create adds
\* exactly the body it was given and changes no stored document; and every
\* entry of a do_query result is the unchanged description of a searchable
\* document, with the score of the vector stored for it.
C11_RoundTrip ==
    /\ [](\A j \in 1..Len(index.docs) :
             /\ index.docs[j].id \in Ids
             /\ index.docs[j].description = StoredPassage(index.docs[j].id)
             /\ \E mod \in Models :
                   index.docs[j].vector
                     = Encode(mod, StoredPassage(index.docs[j].id)))
    /\ [](Returned("do_query") =>
             \A i \in 1..Len(ret.value) :
                \E j \in 1..index.searchable :
                   /\ ret.value[i][1] = StoredPassage(index.docs[j].id)
                   /\ ret.value[i][2]
                        = EngineScore(index.space_type,
                                      Encode(m, ret.args.term),
                                      index.docs[j].vector))
    /\ [][ret'.op = "es.create" /\ ret'.raised = "none" =>
            /\ Len(index'.docs) = Len(index.docs) + 1
            /\ SubSeq(index'.docs, 1, Len(index.docs)) = index.docs
            /\ index'.docs[Len(index'.docs)]
                 = [id |-> ret'.args.id,
                    vector |-> Encode(m, StoredPassage(ret'.args.id)),
                    description |-> StoredPassage(ret'.args.id)]]_vars

\* do_query("camping") has returned both passages, the tent passage first.
C11_Witness ==
    /\ Returned("do_query")
    /\ ret.args.term = "camping"
    /\ Len(ret.value) = 2
    /\ ret.value[1][1] = psg_tent
    /\ ret.value[2][1] = psg_gym_bench

---------------------------------------------------------------------------
(* C12 *)

\* C12: the query path changes nothing.  A do_query or try_model call,
\* whether it returns or raises, leaves the index (its existence, settings,
\* stored and searchable documents), the loaded model, and the passage and
\* search-term list handed to try_model as they were; and what a call
\* answers is determined by the index, the model and its arguments alone,
\* so that queries interleaved in any number against an unchanged index are
\* each answered as they would be alone.  (Among hits of equal score the
\* order is the engine's; "as alone" is one of the orders the engine may
\* give.)
C12_QueriesChangeNothing ==
    /\ [][ret'.op \in {"do_query", "try_model"} =>
            index' = index /\ m' = m /\ cell' = cell /\ pc' = pc]_vars
    /\ [](ret.op = "do_query" =>
             [raised |-> ret.raised, value |-> ret.value]
                \in do_query(index, m, ret.args.term))
    /\ [](ret.op = "try_model" =>
             [raised |-> ret.raised, value |-> ret.value]
                = try_model(cell.mod_name, cell.match_algo, cell.just_nouns,
                            cell.psg_in, cell.search_terms))

\* do_query("bench") has answered from an index of two searchable records,
\* in a notebook whose try_model cell passes a list with a repeated term.
C12_Witness ==
    /\ Returned("do_query")
    /\ ret.args.term = "bench"
    /\ index.searchable = 2
    /\ Len(ret.value) = 2
    /\ cell.search_terms = <<"gym", "gym">>

---------------------------------------------------------------------------
(* C13 *)

\* Every stored record is in the result of the last query.
AllStoredReturned ==
    \A j \in 1..Len(index.docs) :
       \E i \in 1..Len(ret.value) : ret.value[i][1] = index.docs[j].description

\* C13 as stated: a record can be missed only while its insert is in
\* progress; once the create call has returned and no cell is running, every
\* later query returns the record.
C13_VisibleOnceInserted ==
    Returned("do_query") /\ pc = "idle" => AllStoredReturned

\* C13 as amended: the create call returns before the record is searchable;
\* a query run after it may miss the record until the engine has refreshed
\* the index.  On an index the engine can answer from, such a query raises
\* nothing and returns a ranking, best score first, of whole records that
\* are stored and searchable (the description and the score of one and the
\* same stored record, never part of one), as many as are searchable, up to
\* two.  Once the index is refreshed every query returns every stored
\* record, and a pending refresh does come.
C13_SearchableAfterRefresh ==
    /\ [](ret.op = "do_query" /\ Answerable =>
             /\ ret.raised = "none"
             /\ NonIncreasing
             /\ Len(ret.value) = Min(QueryK, index.searchable)
             /\ \A i \in 1..Len(ret.value) :
                   \E j \in 1..index.searchable :
                      ret.value[i]
                        = <<index.docs[j].description,
                            Hit(index, Encode(m, ret.args.term),
                                index.docs[j]).score>>)
    /\ [](Returned("do_query") /\ index.searchable = Len(index.docs) =>
             AllStoredReturned)
    /\ (index.exists /\ index.searchable < Len(index.docs))
          ~> (index.searchable = Len(index.docs))

\* Both records are stored, the first alone is searchable, and do_query has
\* returned one record only.
C13_Witness ==
    /\ Returned("do_query")
    /\ pc = "idle"
    /\ Len(index.docs) = 2
    /\ index.searchable = 1
    /\ Len(ret.value) = 1

---------------------------------------------------------------------------
(* C14 *)

\* The documents of the index after a rebuild under model mod: the two
\* create calls' bodies under ids 1 and 2.
RebuiltDocs(mod) ==
    <<[id |-> 1, vector |-> Encode(mod, psg_gym_bench),
       description |-> psg_gym_bench],
      [id |-> 2, vector |-> Encode(mod, psg_tent), description |-> psg_tent]>>

\* The index a rebuild under the loaded model ends in, once refreshed.
Rebuilt ==
    [indices_create(NoIndex, idx).index
       EXCEPT !.docs = RebuiltDocs(m), !.searchable = 2]

\* The add-documents cell has run to its end on an index made by the set-up
\* cell.
RebuildDone ==
    /\ ret.op = "es.create" /\ ret.args.id = 2 /\ ret.raised = "none"
    /\ index.knn

---------------------------------------------------------------------------
(* C15 *)

\* C15: a metric name that is neither dot nor cosine is a typed failure.
\* try_model called with "l2" raises ValueError and returns nothing, whatever
\* the model, the passage, just_nouns and the search terms (none, one or
\* several); it never ends as a success with an empty list.  With a name it
\* accepts it raises nothing, and returns the empty list only for an empty
\* list of search terms.
C15_InvalidMetricRaises ==
    ret.op = "try_model" =>
       /\ cell.match_algo = "l2" => ret.raised = "ValueError"
       /\ cell.match_algo \in {"dot", "cosine", "Cosine", "DOT"} =>
             /\ ret.raised = "none"
             /\ ret.value = <<>> <=> cell.search_terms = <<>>

\* try_model("...", "l2", just_nouns=True, ...) has raised ValueError for a
\* list of three search terms.
C15_Witness ==
    /\ ret.op = "try_model"
    /\ cell.match_algo = "l2"
    /\ cell.just_nouns
    /\ Len(cell.search_terms) = 3
    /\ ret.raised = "ValueError"

---------------------------------------------------------------------------
(* C16 *)

\* C16: the set-up cell (delete the index, every failure of the delete
\* swallowed; then create the index).  When it finishes without raising, the
\* index exists and holds no documents, stored or searchable, whatever was
\* there before: no index, an empty index, an index with documents.  When
\* the swallowed delete has left an existing index in place, the create call
\* raises (the index exists already); and whenever the cell raises, the
\* index, its documents included, is left as it was.
C16_SetupLeavesEmptyIndex ==
    [][ret'.op = "setup" =>
         /\ ret'.raised = "none" =>
               /\ index'.exists
               /\ index'.docs = <<>>
               /\ index'.searchable = 0
         /\ index.exists /\ ret'.swallowed # "none" =>
               ret'.raised = "RequestError"
         /\ ret'.raised # "none" => index' = index]_vars

\* The delete has failed on an index of two documents, the failure has been
\* swallowed, the create call has raised, and the two documents are there.
C16_Witness ==
    /\ ret.op = "setup"
    /\ ret.swallowed = "TransportError"
    /\ ret.raised = "RequestError"
    /\ Len(index.docs) = 2
    /\ index.searchable = 2

---------------------------------------------------------------------------
(* C17 *)

\* C17: try_model returns exactly one (score, term) entry for every distinct
\* search term.  The result is as long as the number of distinct terms in
\* search_terms, its terms are exactly the terms given, a term given several
\* times stands in it once, and a term is kept whatever its score (zero and
\* negative scores included).
C17_OneEntryPerTerm ==
    Returned("try_model") =>
       /\ Len(ret.value) = Cardinality(Range(cell.search_terms))
       /\ {ret.value[i][2] : i \in 1..Len(ret.value)} = Range(cell.search_terms)
       /\ \A i, j \in 1..Len(ret.value) :
             ret.value[i][2] = ret.value[j][2] => i = j

\* try_model has returned two entries for the terms gym, tent, gym, one of
\* them with the score 0.
C17_Witness ==
    /\ Returned("try_model")
    /\ cell.search_terms = <<"gym", "tent", "gym">>
    /\ Len(ret.value) = 2
    /\ \E i \in 1..2 : ret.value[i][1] = 0

---------------------------------------------------------------------------
(* C18 *)

\* The entries of the last try_model result are scored with f: one entry
\* per term of the result, its score f of the term's and the passage's
\* embeddings under the cell's model.
ScoredWith(f(_, _)) ==
    \A i \in 1..Len(ret.value) :
       ret.value[i][1] = f(Encode(cell.mod_name, ret.value[i][2]),
                           Encode(cell.mod_name, PassageOf(cell)))

\* C18: the metric name is matched without regard to letter case.  Called
\* with "DOT", try_model raises nothing, scores with the dot product and
\* returns the ranking it returns for "dot" and the same other arguments;
\* called with "Cosine", it scores with the cosine and returns the ranking
\* it returns for "cosine".
C18_CaseInsensitive ==
    ret.op = "try_model" =>
       /\ cell.match_algo \in {"DOT", "dot"} =>
             /\ ret.raised = "none"
             /\ ScoredWith(dot_score)
             /\ ret.value = try_model(cell.mod_name, "dot", cell.just_nouns,
                                      cell.psg_in, cell.search_terms).value
       /\ cell.match_algo \in {"Cosine", "cosine"} =>
             /\ ret.raised = "none"
             /\ ScoredWith(pytorch_cos_sim)
             /\ ret.value = try_model(cell.mod_name, "cosine", cell.just_nouns,
                                      cell.psg_in, cell.search_terms).value

\* try_model called with "DOT" has returned a ranking of three terms.
C18_Witness ==
    /\ Returned("try_model")
    /\ cell.match_algo = "DOT"
    /\ Len(ret.value) = 3

============================================================================
